---- MODULE Spec2Model ----
(***************************************************************************)
(* Boost.KernelAlloc (kernelalloc.hpp): the allocation / provider          *)
(* interface pair and the STL-compatible allocator built on it.            *)
(*                                                                         *)
(* allocation and provider are abstract classes: the header holds their    *)
(* non-virtual convenience overloads and the allocator template.  The pure *)
(* virtual operations (provider::allocate, provider::allocation,           *)
(* allocation::size/map/unmap/prefault/discard) have no implementation in  *)
(* the repository; they are modelled here from the written contract, with  *)
(* every choice the contract leaves to a provider (failure, granted size,  *)
(* address) drawn nondeterministically.                                    *)
(***************************************************************************)
EXTENDS Integers, Sequences, FiniteSets, TLC

(***************************************************************************)
(* Bounds                                                                  *)
(***************************************************************************)
\* width of size_type in bits (scaled down)
SizeBits == 3
\* allocation objects and local addresses that can exist at once
MaxLive == 2
\* bytes in each provider's arena
Capacity == 4
\* longest descriptor batch a direct caller passes
MaxBatch == 2

SizeMod == 2 ^ SizeBits
\* (size_type)-1
SIZE_MAX == SizeMod - 1

\* the provider instances of the program
Providers == {"p1", "p2"}
\* an empty std::shared_ptr<provider>
NoProvider == "null"
\* the allocator objects of the program: allocator<T> x; allocator<U> y;
Adapters == {"x", "y"}
\* sizeof(T) = 2, sizeof(U) = 3
SizeofT(i) == IF i = "y" THEN 3 ELSE 2
AllocIds == 1 .. MaxLive
\* an empty std::shared_ptr<allocation>
NoAlloc == 0
Addrs == 1 .. MaxLive
nullptr == 0

VARIABLES
    adapters,   \* allocator objects: [prov], the provider each holds
    allocs,     \* allocation objects: [alive, prov, size]
    maps,       \* the providers' address -> mapped range table
    held,       \* allocations a direct caller holds a shared_ptr to
    live,       \* addresses allocator::allocate returned, not yet deallocated
    last        \* the last operation: its arguments, outcome and provider calls

vars == <<adapters, allocs, maps, held, live, last>>

Min(a, b) == IF a < b THEN a ELSE b

(***************************************************************************)
(* allocation::map_t                                                       *)
(***************************************************************************)
\* a default-constructed error_code
NoError == "ok"

\* map_t(): addr(nullptr), offset(0), length(0)
map_t0 == [addr |-> nullptr, offset |-> 0, length |-> 0, ec |-> NoError]

\* map_t(_offset, _length): addr(nullptr)
map_t2(offset, length) ==
    [addr |-> nullptr, offset |-> offset, length |-> length, ec |-> NoError]

(***************************************************************************)
(* The objects behind the two abstract classes.                            *)
(***************************************************************************)
NoAllocation == [alive |-> FALSE, prov |-> NoProvider, size |-> 0]
Unmapped == [alloc |-> NoAlloc, offset |-> 0, length |-> 0, committed |-> FALSE]

\* allocation::size()
size(al, a) == al[a].size

\* owners of an allocation: a direct caller's shared_ptr, and one reference
\* per entry of the provider's address table that names it
RefCount(mp, hd, a) ==
    (IF a \in hd THEN 1 ELSE 0) + Cardinality({p \in Addrs : mp[p].alloc = a})

\* the range [offset, offset+length) of a is mapped somewhere
Overlaps(mp, a, d) ==
    \E p \in Addrs :
        /\ mp[p].alloc = a
        /\ d.offset < mp[p].offset + mp[p].length
        /\ mp[p].offset < d.offset + d.length

\* d names a range of a that is mapped at d.addr
IsMapped(mp, a, d) ==
    /\ d.addr # nullptr
    /\ mp[d.addr].alloc = a
    /\ mp[d.addr].offset = d.offset
    /\ mp[d.addr].length = d.length

Fail(mp, d, ec, keep) ==
    [maps |-> mp,
     d |-> [d EXCEPT !.addr = IF keep THEN d.addr ELSE nullptr, !.ec = ec]]

\* one descriptor of allocation::map; c is the address the provider picks
\* (nullptr: it has none to give)
MapOne(mp, al, a, d, c) ==
    IF d.length = 0 \/ d.offset + d.length > size(al, a)
    THEN Fail(mp, d, "out_of_range", FALSE)
    ELSE IF Overlaps(mp, a, d)
    THEN Fail(mp, d, "already_mapped", FALSE)
    ELSE IF c = nullptr \/ mp[c].alloc # NoAlloc
    THEN Fail(mp, d, "no_address", FALSE)
    ELSE [maps |-> [mp EXCEPT ![c] = [alloc |-> a, offset |-> d.offset,
                                      length |-> d.length, committed |-> FALSE]],
          d |-> [d EXCEPT !.addr = c, !.ec = NoError]]

\* one descriptor of allocation::unmap
UnmapOne(mp, al, a, d, c) ==
    IF ~IsMapped(mp, a, d)
    THEN Fail(mp, d, "not_mapped", TRUE)
    ELSE [maps |-> [mp EXCEPT ![d.addr] = Unmapped],
          d |-> [d EXCEPT !.ec = NoError]]

\* one descriptor of allocation::prefault
PrefaultOne(mp, al, a, d, c) ==
    IF ~IsMapped(mp, a, d)
    THEN Fail(mp, d, "not_mapped", TRUE)
    ELSE [maps |-> [mp EXCEPT ![d.addr].committed = TRUE],
          d |-> [d EXCEPT !.ec = NoError]]

\* one descriptor of allocation::discard
DiscardOne(mp, al, a, d, c) ==
    IF ~IsMapped(mp, a, d)
    THEN Fail(mp, d, "not_mapped", TRUE)
    ELSE [maps |-> [mp EXCEPT ![d.addr].committed = FALSE],
          d |-> [d EXCEPT !.ec = NoError]]

Ops == {"map", "unmap", "prefault", "discard"}

One(op, mp, al, a, d, c) ==
    CASE op = "map" -> MapOne(mp, al, a, d, c)
      [] op = "unmap" -> UnmapOne(mp, al, a, d, c)
      [] op = "prefault" -> PrefaultOne(mp, al, a, d, c)
      [] op = "discard" -> DiscardOne(mp, al, a, d, c)

\* the canonical batch form X(map_t *m, size_type no): the descriptors in
\* order, each on its own, the count of those that succeeded returned
\* (the results of the first descriptor and of the rest, put together)
Join(first, rest) ==
    [maps |-> rest.maps, ds |-> first.ds \o rest.ds, count |-> first.count + rest.count]

Counted(r) ==
    [maps |-> r.maps, ds |-> <<r.d>>, count |-> IF r.d.ec = NoError THEN 1 ELSE 0]

RECURSIVE Batch(_, _, _, _, _, _)
RECURSIVE BatchRest(_, _, _, _, _, _)
Batch(op, mp, al, a, ds, cs) ==
    IF ds = <<>>
    THEN [maps |-> mp, ds |-> <<>>, count |-> 0]
    ELSE BatchRest(op, al, a, Tail(ds), Tail(cs),
                   Counted(One(op, mp, al, a, Head(ds), Head(cs))))

BatchRest(op, al, a, ds, cs, first) ==
    Join(first, Batch(op, first.maps, al, a, ds, cs))

(***************************************************************************)
(* allocation's convenience overloads                                      *)
(***************************************************************************)
\* bool X(map_t &m): 1==X(&m, 1)
Single(op, mp, al, a, d, c) ==
    [Batch(op, mp, al, a, <<d>>, <<c>>) EXCEPT !.count = IF 1 = @ THEN 1 ELSE 0]

\* X(T &&begin, T &&end): for(; begin!=end; ++begin) ret+=X(&(*begin), 1)
RECURSIVE Range(_, _, _, _, _, _)
RECURSIVE RangeRest(_, _, _, _, _, _)
Range(op, mp, al, a, ds, cs) ==
    IF ds = <<>>
    THEN [maps |-> mp, ds |-> <<>>, count |-> 0]
    ELSE RangeRest(op, al, a, Tail(ds), Tail(cs),
                   Batch(op, mp, al, a, <<Head(ds)>>, <<Head(cs)>>))

\* (++begin, and the loop again)
RangeRest(op, al, a, ds, cs, first) ==
    Join(first, Range(op, first.maps, al, a, ds, cs))

\* map(T &&cont): return map(std::begin(cont), std::end(cont))
map_container(mp, al, a, ds, cs) == Range("map", mp, al, a, ds, cs)

\* unmap(T &&cont): return map(std::begin(cont), std::end(cont))
unmap_container(mp, al, a, ds, cs) == Range("map", mp, al, a, ds, cs)

\* prefault(T &&cont): return prefault(std::begin(cont), std::end(cont))
prefault_container(mp, al, a, ds, cs) == Range("prefault", mp, al, a, ds, cs)

\* discard(T &&cont): return discard(std::begin(cont), std::end(cont))
discard_container(mp, al, a, ds, cs) == Range("discard", mp, al, a, ds, cs)

Container(op, mp, al, a, ds, cs) ==
    CASE op = "map" -> map_container(mp, al, a, ds, cs)
      [] op = "unmap" -> unmap_container(mp, al, a, ds, cs)
      [] op = "prefault" -> prefault_container(mp, al, a, ds, cs)
      [] op = "discard" -> discard_container(mp, al, a, ds, cs)

\* X(const std::vector<map_t> &c): return X(c.data(), c.size())
Vector(op, mp, al, a, ds, cs) == Batch(op, mp, al, a, ds, cs)

Returned(r) == [maps |-> r.maps, m |-> r.ds[1]]

\* (a slip for C2: map_t m; instead of map_t m(0, size());)
MapAll_default(mp, al, a, c) ==
    Returned(Batch("map", mp, al, a, <<map_t0>>, <<c>>))

\* map_t map(): map_t m(0, size()); map(&m, 1); return m
MapAll(mp, al, a, c) ==
    Returned(Batch("map", mp, al, a, <<map_t2(0, size(al, a))>>, <<c>>))

(***************************************************************************)
(* provider and the lifetime of an allocation                              *)
(***************************************************************************)
RECURSIVE SumSizes(_, _)
SumSizes(al, S) ==
    IF S = {} THEN 0
    ELSE LET a == CHOOSE x \in S : TRUE
         IN  al[a].size + SumSizes(al, S \ {a})

\* bytes of provider P's arena that are reserved
Used(al, P) == SumSizes(al, {a \in AllocIds : al[a].alive /\ al[a].prov = P})

FreeIds(al) == {a \in AllocIds : ~al[a].alive}

\* the capacities a provider may grant a request of bytes
GrantSizes(bytes) == {bytes, Min(bytes + 1, SIZE_MAX)}

\* provider::allocate(ec, bytes); ok and sz are the provider's choice
ProviderAllocate(al, P, bytes, ok, sz) ==
    IF bytes = 0
    THEN [allocs |-> al, a |-> NoAlloc, ec |-> "invalid_size"]
    ELSE IF ~ok \/ FreeIds(al) = {} \/ Used(al, P) + sz > Capacity
    THEN [allocs |-> al, a |-> NoAlloc, ec |-> "exhausted"]
    ELSE LET a == CHOOSE x \in FreeIds(al) : \A y \in FreeIds(al) : x <= y
         IN  [allocs |-> [al EXCEPT ![a] = [alive |-> TRUE, prov |-> P, size |-> sz]],
              a |-> a, ec |-> NoError]

\* provider::allocation(addr, &map)
ProviderLookup(mp, al, P, p, m) ==
    IF p # nullptr /\ mp[p].alloc # NoAlloc /\ al[mp[p].alloc].prov = P
    THEN [a |-> mp[p].alloc,
          m |-> [addr |-> p, offset |-> mp[p].offset, length |-> mp[p].length,
                 ec |-> NoError]]
    ELSE [a |-> NoAlloc, m |-> m]

\* ~allocation(): every range still mapped is released
Destroy(al, mp, a) ==
    [allocs |-> [al EXCEPT ![a] = NoAllocation],
     maps |-> [p \in Addrs |-> IF mp[p].alloc = a THEN Unmapped ELSE mp[p]]]

\* (a slip for C9: the local reference taken for the only owner)
ScopeExit_last(al, mp, hd, a) ==
    IF a # NoAlloc /\ al[a].alive
    THEN Destroy(al, mp, a)
    ELSE [allocs |-> al, maps |-> mp]

\* (a slip for C10: the local reference never given up)
ScopeExit_keep(al, mp, hd, a) == [allocs |-> al, maps |-> mp]

\* a local std::shared_ptr<allocation> leaves scope: the allocation is
\* destroyed if that was its last owner
ScopeExit(al, mp, hd, a) ==
    IF a # NoAlloc /\ al[a].alive /\ RefCount(mp, hd, a) = 0
    THEN Destroy(al, mp, a)
    ELSE [allocs |-> al, maps |-> mp]

(***************************************************************************)
(* allocator<T>                                                            *)
(***************************************************************************)
\* one call made on a provider or an allocation: its arguments, the
\* allocation (or the count) it returned and the error it reported
Call(name, obj, addr, offset, length, got, ec) ==
    [call |-> name, obj |-> obj, addr |-> addr, offset |-> offset, length |-> length,
     got |-> got, ec |-> ec]

Thrown(al, mp, what, calls) ==
    [allocs |-> al, maps |-> mp, outcome |-> what, ret |-> nullptr,
     a |-> NoAlloc, calls |-> calls]

\* (a slip for C3: m.addr returned without the null check)
allocate_return_unchecked(x, a, addr, calls) ==
    [allocs |-> x.allocs, maps |-> x.maps, outcome |-> "ok", ret |-> addr,
     a |-> a, calls |-> calls]

\* the end of allocate: m.addr is returned unless it is null
allocate_return(x, a, addr, calls) ==
    IF addr = nullptr
    THEN Thrown(x.allocs, x.maps, "bad_alloc", calls)
    ELSE [allocs |-> x.allocs, maps |-> x.maps, outcome |-> "ok", ret |-> addr,
          a |-> a, calls |-> calls]

\* the end of deallocate: the descriptor's error is thrown if set
deallocate_return(x, a, ec, calls) ==
    IF ec # NoError
    THEN Thrown(x.allocs, x.maps, "system_error: Failed to unmap allocation", calls)
    ELSE [allocs |-> x.allocs, maps |-> x.maps, outcome |-> "ok", ret |-> nullptr,
          a |-> a, calls |-> calls]

\* (a slip for C5: one element too many)
max_size_plus(t) == SIZE_MAX \div t + 1

\* allocator::max_size(): ((size_type)-1)/sizeof(T)
max_size(t) == SIZE_MAX \div t

\* allocate, after a->map(): if(!m.addr) throw std::bad_alloc();
\* return static_cast<pointer>(m.addr); and a leaves scope
allocate_mapped(hd, r, m, callA) ==
    LET callM == Call("map", r.a, m.m.addr, m.m.offset, m.m.length,
                      IF m.m.ec = NoError THEN 1 ELSE 0, m.m.ec)
    IN  allocate_return(ScopeExit(r.allocs, m.maps, hd, r.a), r.a, m.m.addr,
                        <<callA, callM>>)

\* (a slip for C4: the failure path drops the ranges mapped so far)
allocate_reserved_drops(mp, hd, r, c, callA) ==
    IF r.ec # NoError \/ r.a = NoAlloc
    THEN Thrown(r.allocs, [p \in Addrs |-> Unmapped], "system_error",
                <<[callA EXCEPT !.got = r.a, !.ec = r.ec]>>)
    ELSE allocate_mapped(hd, r, MapAll(mp, r.allocs, r.a, c),
                         [callA EXCEPT !.got = r.a, !.ec = r.ec])

\* allocate, after _provider->allocate(ec, bytes):
\* if(ec || !a) throw std::system_error(ec); auto m(a->map());
allocate_reserved(mp, hd, r, c, callA) ==
    IF r.ec # NoError \/ r.a = NoAlloc
    THEN Thrown(r.allocs, mp, "system_error", <<[callA EXCEPT !.got = r.a, !.ec = r.ec]>>)
    ELSE allocate_mapped(hd, r, MapAll(mp, r.allocs, r.a, c),
                         [callA EXCEPT !.got = r.a, !.ec = r.ec])

\* allocator::allocate(n, hint); ok, sz and c are the provider's choices
allocate(ad, al, mp, hd, i, n, ok, sz, c) ==
    LET P == ad[i].prov
        bytes == (n * SizeofT(i)) % SizeMod
    IN  IF P = NoProvider
        THEN Thrown(al, mp, "invalid_argument: Unset provider", <<>>)
        ELSE IF n > max_size(SizeofT(i))
        THEN Thrown(al, mp, "bad_alloc", <<>>)
        ELSE allocate_reserved(mp, hd, ProviderAllocate(al, P, bytes, ok, sz), c,
                               Call("allocate", P, nullptr, 0, bytes, NoAlloc, NoError))

\* deallocate, after a->unmap(m):
\* if(m.ec) throw std::system_error(m.ec, "Failed to unmap allocation");
\* and a leaves scope
deallocate_unmapped(al, hd, r, u, callL) ==
    LET callU == Call("unmap", r.a, r.m.addr, r.m.offset, r.m.length,
                      u.count, u.ds[1].ec)
    IN  deallocate_return(ScopeExit(al, u.maps, hd, r.a), r.a, u.ds[1].ec,
                          <<callL, callU>>)

\* (a slip for C6: a lookup miss is not reported)
deallocate_found_silent(al, mp, hd, r, callL) ==
    IF r.a = NoAlloc
    THEN [allocs |-> al, maps |-> mp, outcome |-> "ok", ret |-> nullptr,
          a |-> NoAlloc, calls |-> <<callL>>]
    ELSE deallocate_unmapped(al, hd, r, Single("unmap", mp, al, r.a, r.m, nullptr),
                             [callL EXCEPT !.got = r.a])

\* (a slip for C7: prefault called where unmap was meant)
deallocate_found_prefault(al, mp, hd, r, callL) ==
    IF r.a = NoAlloc
    THEN Thrown(al, mp, "invalid_argument: Address not found", <<callL>>)
    ELSE deallocate_unmapped(al, hd, r, Single("prefault", mp, al, r.a, r.m, nullptr),
                             [callL EXCEPT !.got = r.a])

\* deallocate, after _provider->allocation(p, &m):
\* if(!a) throw std::invalid_argument("Address not found"); a->unmap(m);
deallocate_found(al, mp, hd, r, callL) ==
    IF r.a = NoAlloc
    THEN Thrown(al, mp, "invalid_argument: Address not found", <<callL>>)
    ELSE deallocate_unmapped(al, hd, r, Single("unmap", mp, al, r.a, r.m, nullptr),
                             [callL EXCEPT !.got = r.a])

\* allocator::deallocate(p, n)
deallocate(ad, al, mp, hd, i, p) ==
    LET P == ad[i].prov
    IN  IF P = NoProvider
        THEN Thrown(al, mp, "invalid_argument: Unset provider", <<>>)
        ELSE deallocate_found(al, mp, hd, ProviderLookup(mp, al, P, p, map_t0),
                              Call("allocation", P, p, 0, 0, NoAlloc, NoError))

\* allocator(): _provider empty
allocator0 == [prov |-> NoProvider]

\* (a slip for C8: the constructor leaves _provider empty)
allocator_copy_empty(o) == [prov |-> NoProvider]

\* allocator(const allocator &o), allocator(const allocator<U> &o):
\* _provider(o._provider)
allocator_copy(o) == [prov |-> o.prov]

\* operator==(a, b): a._provider==b._provider
operator_eq(a, b) == a.prov = b.prov

\* operator!=(a, b): a._provider!=b._provider
operator_ne(a, b) == a.prov # b.prov

(***************************************************************************)
(* State machine of a program using allocators                             *)
(***************************************************************************)
Rec(op, who, arg, r) ==
    [op |-> op, who |-> who, arg |-> arg, outcome |-> r.outcome, ret |-> r.ret,
     a |-> r.a, calls |-> r.calls]

Done(op, who, arg) ==
    [op |-> op, who |-> who, arg |-> arg, outcome |-> "ok", ret |-> nullptr,
     a |-> NoAlloc, calls |-> <<>>]

Init ==
    /\ adapters = [i \in Adapters |-> allocator0]
    /\ allocs = [a \in AllocIds |-> NoAllocation]
    /\ maps = [p \in Addrs |-> Unmapped]
    /\ held = {}
    /\ live = [p \in Addrs |-> NoAlloc]
    /\ last = Done("init", "", 0)

\* allocator<T> x;
DefaultConstruct(i) ==
    /\ adapters' = [adapters EXCEPT ![i] = allocator0]
    /\ last' = Done("construct", i, "")
    /\ UNCHANGED <<allocs, maps, held, live>>

\* the surrounding application hands a provider to an allocator
Bind(i, P) ==
    /\ adapters' = [adapters EXCEPT ![i].prov = P]
    /\ last' = Done("bind", i, P)
    /\ UNCHANGED <<allocs, maps, held, live>>

\* allocator<B> j(i); the copy constructor when B is i's element type, the
\* converting one (a rebind) when it is not: both copy _provider
CopyConstruct(i, j) ==
    /\ i # j
    /\ adapters' = [adapters EXCEPT ![j] = allocator_copy(adapters[i])]
    /\ last' = Done("copy", j, i)
    /\ UNCHANGED <<allocs, maps, held, live>>

\* allocator<B> j(std::move(i)); i's _provider is left empty
MoveConstruct(i, j) ==
    /\ i # j
    /\ adapters' = [adapters EXCEPT ![j] = allocator_copy(adapters[i]),
                                    ![i] = allocator0]
    /\ last' = Done("move", j, i)
    /\ UNCHANGED <<allocs, maps, held, live>>

\* p = x.allocate(n);
Allocate(i, n, ok, sz, c) ==
    \E r \in {allocate(adapters, allocs, maps, held, i, n, ok, sz, c)} :
        /\ allocs' = r.allocs
        /\ maps' = r.maps
        /\ live' = IF r.outcome = "ok" /\ r.ret # nullptr
                   THEN [live EXCEPT ![r.ret] = r.a]
                   ELSE live
        /\ last' = Rec("allocate", i, n, r)
        /\ UNCHANGED <<adapters, held>>

\* x.deallocate(p, n);
Deallocate(i, p) ==
    \E r \in {deallocate(adapters, allocs, maps, held, i, p)} :
        /\ allocs' = r.allocs
        /\ maps' = r.maps
        /\ live' = IF r.outcome = "ok" THEN [live EXCEPT ![p] = NoAlloc] ELSE live
        /\ last' = Rec("deallocate", i, p, r)
        /\ UNCHANGED <<adapters, held>>

\* the element counts callers ask for, the edge of max_size() among them
NValues(t) == {0, 1, max_size(t), max_size(t) + 1}

\* the provider's choices matter only on the path that reaches them
Reaches(i, n) == adapters[i].prov # NoProvider /\ n <= max_size(SizeofT(i))

Next ==
    \/ \E i \in Adapters : DefaultConstruct(i)
    \/ \E i \in Adapters, P \in Providers : Bind(i, P)
    \/ \E i, j \in Adapters : CopyConstruct(i, j)
    \/ \E i, j \in Adapters : MoveConstruct(i, j)
    \/ \E i \in Adapters : \E n \in NValues(SizeofT(i)) :
          \E ok \in IF Reaches(i, n) THEN BOOLEAN ELSE {FALSE} :
              \E sz \in IF ok THEN GrantSizes((n * SizeofT(i)) % SizeMod) ELSE {0} :
                  \E c \in IF ok THEN Addrs \cup {nullptr} ELSE {nullptr} :
                      Allocate(i, n, ok, sz, c)
    \/ \E i \in Adapters, p \in Addrs \cup {nullptr} : Deallocate(i, p)

Spec == Init /\ [][Next]_vars

(***************************************************************************)
(* State machine of a program that uses a provider and an allocation       *)
(* directly, one allocation at a time                                      *)
(***************************************************************************)
Forms == {"single", "range", "container", "vector"}

\* the convenience overload `form` of operation op
Convenience(form, op, mp, al, a, ds, cs) ==
    CASE form = "single" -> Single(op, mp, al, a, ds[1], cs[1])
      [] form = "range" -> Range(op, mp, al, a, ds, cs)
      [] form = "container" -> Container(op, mp, al, a, ds, cs)
      [] form = "vector" -> Vector(op, mp, al, a, ds, cs)

\* what a call through a convenience overload did, and whether that is what
\* the canonical batch form of the same operation does on the same
\* descriptors from the same state: the count returned, every descriptor's
\* addr and ec, and the ranges left mapped
ClientRec(op, form, n, r, canon) ==
    [op |-> op, form |-> form, n |-> n, same |-> r = canon]

SeqsUpTo(S, n) == UNION {[1 .. k -> S] : k \in 1 .. n}

\* the descriptors a caller passes to map: two ranges and one past the arena
MapDescs == {map_t2(0, 1), map_t2(1, 1), map_t2(0, Capacity + 1)}

\* the descriptors a caller passes to unmap, prefault and discard: the ranges
\* of a that are mapped, and one that is not
MappedDescs(mp, a) ==
    {[addr |-> p, offset |-> mp[p].offset, length |-> mp[p].length, ec |-> NoError] :
        p \in {q \in Addrs : mp[q].alloc = a}}
    \cup {map_t2(0, 1)}

\* the addresses the provider picks for a batch: from address k on, in turn,
\* with nullptr (none to give) among them
Picks(n) ==
    {[i \in 1 .. n |-> (k + i) % (MaxLive + 1)] : k \in 0 .. MaxLive}

\* a = p->allocate(ec, bytes);
ClientAllocate(P, bytes, ok, sz) ==
    /\ FreeIds(allocs) = AllocIds
    /\ \E r \in {ProviderAllocate(allocs, P, bytes, ok, sz)} :
        /\ allocs' = r.allocs
        /\ held' = IF r.a = NoAlloc THEN {} ELSE {r.a}
        /\ last' = [op |-> "provider_allocate", a |-> r.a, ec |-> r.ec, bytes |-> bytes]
    /\ UNCHANGED <<adapters, maps, live>>

\* a = p->allocation(addr);
ClientLookup(P, p) ==
    /\ held = {}
    /\ \E r \in {ProviderLookup(maps, allocs, P, p, map_t0)} :
        /\ held' = IF r.a = NoAlloc THEN {} ELSE {r.a}
        /\ last' = [op |-> "provider_allocation", a |-> r.a, m |-> r.m]
    /\ UNCHANGED <<adapters, allocs, maps, live>>

\* a.reset();
ClientRelease(a) ==
    /\ a \in held
    /\ \E x \in {ScopeExit(allocs, maps, held \ {a}, a)} :
        /\ allocs' = x.allocs
        /\ maps' = x.maps
    /\ held' = held \ {a}
    /\ last' = [op |-> "release", a |-> a]
    /\ UNCHANGED <<adapters, live>>

\* a->X(...) through one of the convenience overloads
ClientCall(op, form, a, ds, cs) ==
    /\ a \in held
    /\ Len(cs) = Len(ds)
    /\ form = "single" => Len(ds) = 1
    /\ \E r \in {Convenience(form, op, maps, allocs, a, ds, cs)} :
        /\ maps' = r.maps
        /\ last' = ClientRec(op, form, Len(ds), r, Batch(op, maps, allocs, a, ds, cs))
    /\ UNCHANGED <<adapters, allocs, held, live>>

\* m = a->map();
ClientMapAll(a, c) ==
    /\ a \in held
    /\ \E r \in {MapAll(maps, allocs, a, c)} :
        /\ maps' = r.maps
        /\ last' = [op |-> "map_all", a |-> a, c |-> c, m |-> r.m]
    /\ UNCHANGED <<adapters, allocs, held, live>>

NextAlloc ==
    \/ \E P \in Providers, bytes \in 1 .. 2, ok \in BOOLEAN :
          \E sz \in GrantSizes(bytes) : ClientAllocate(P, bytes, ok, sz)
    \/ \E P \in Providers, p \in Addrs : ClientLookup(P, p)
    \/ \E a \in AllocIds : ClientRelease(a)
    \/ \E a \in AllocIds, form \in Forms, ds \in SeqsUpTo(MapDescs, MaxBatch) :
          \E cs \in Picks(Len(ds)) : ClientCall("map", form, a, ds, cs)
    \/ \E a \in AllocIds, form \in Forms, op \in Ops \ {"map"} :
          \E ds \in SeqsUpTo(MappedDescs(maps, a), MaxBatch) :
              ClientCall(op, form, a, ds, [i \in 1 .. Len(ds) |-> nullptr])
    \/ \E a \in AllocIds, c \in Addrs \cup {nullptr} : ClientMapAll(a, c)

SpecAlloc == Init /\ [][NextAlloc]_vars

(***************************************************************************)
(* Properties                                                              *)
(***************************************************************************)
IsAllocate(l) == l.op = "allocate"
IsDeallocate(l) == l.op = "deallocate"
Unset == "invalid_argument: Unset provider"
NotFound == "invalid_argument: Address not found"

\* C1: every convenience overload of map, unmap, prefault and discard does
\* what the canonical batch form of the same operation does on the same
\* descriptors: same count, same addr and ec per descriptor, same ranges
\* left mapped.  (Under SpecAlloc.)
C1_ConvenienceIsCanonical ==
    last.op \in Ops => last.same

\* the provider-level calls of one allocate, and of one deallocate
C2_AllocateCalls(l) ==
    LET P == adapters[l.who].prov
        passed == P # NoProvider /\ l.arg <= max_size(SizeofT(l.who))
    IN  /\ ~passed => l.calls = <<>>
        /\ passed =>
            /\ Len(l.calls) \in {1, 2}
            /\ l.calls[1].call = "allocate" /\ l.calls[1].obj = P
            /\ Len(l.calls) = 2 <=> l.calls[1].got # NoAlloc
            /\ Len(l.calls) = 2 =>
                /\ l.calls[2].call = "map"
                /\ l.calls[2].obj = l.calls[1].got
                /\ l.calls[2].offset = 0
                /\ l.calls[2].length \in GrantSizes(l.calls[1].length)
                /\ l.outcome = "ok" =>
                       l.calls[2].length = allocs'[l.calls[2].obj].size

C2_DeallocateCalls(l) ==
    LET P == adapters[l.who].prov
        hit == l.arg # nullptr /\ maps[l.arg].alloc # NoAlloc
               /\ allocs[maps[l.arg].alloc].prov = P
    IN  /\ P = NoProvider => l.calls = <<>>
        /\ P # NoProvider =>
            /\ l.calls[1].call = "allocation"
            /\ l.calls[1].obj = P /\ l.calls[1].addr = l.arg
            /\ Len(l.calls) = IF hit THEN 2 ELSE 1
            /\ hit =>
                /\ l.calls[2].call = "unmap"
                /\ l.calls[2].obj = maps[l.arg].alloc
                /\ l.calls[2].addr = l.arg
                /\ l.calls[2].offset = maps[l.arg].offset
                /\ l.calls[2].length = maps[l.arg].length

\* C2: an allocate that passes its checks makes one provider::allocate call
\* and then, on the allocation it got, one map of offset 0 and length size();
\* a deallocate on a bound allocator makes one provider::allocation call and
\* then, when that found an allocation, one unmap of the range it reported;
\* nothing else is called, so reservations and allocate calls that reach the
\* provider go one to one.
C2_OneReservationOneMap ==
    [][/\ IsAllocate(last') => C2_AllocateCalls(last')
       /\ IsDeallocate(last') => C2_DeallocateCalls(last')]_vars

\* C2 happens: an allocate was given more than it asked for and mapped all of it
C2_Witness ==
    /\ IsAllocate(last) /\ last.outcome = "ok"
    /\ last.calls[2].length > last.calls[1].length
    /\ maps[last.ret].length = allocs[last.a].size

\* C3: allocate returns an address only when the provider gave an allocation
\* without error and the map of it produced a non-null addr, and returns that
\* addr; a provider error or no allocation means failure, no address and no
\* map; a null addr from map means failure.
C3_NeverNull ==
    IsAllocate(last) =>
        /\ last.outcome = "ok" <=> last.ret # nullptr
        /\ last.outcome = "ok" =>
            /\ Len(last.calls) = 2
            /\ last.calls[1].ec = NoError /\ last.calls[1].got # NoAlloc
            /\ last.calls[2].call = "map" /\ last.calls[2].addr = last.ret
            /\ maps[last.ret].alloc = last.calls[1].got
        /\ (Len(last.calls) >= 1
            /\ (last.calls[1].ec # NoError \/ last.calls[1].got = NoAlloc)) =>
            /\ last.outcome = "system_error"
            /\ Len(last.calls) = 1
        /\ (Len(last.calls) = 2 /\ last.calls[2].addr = nullptr) =>
            last.outcome = "bad_alloc"

\* C3 happens: the reservation succeeded and the map gave no address
C3_Witness ==
    /\ IsAllocate(last) /\ Len(last.calls) = 2
    /\ last.calls[2].addr = nullptr /\ last.outcome = "bad_alloc"

\* the addresses allocate returned that were not deallocated since
Live == {p \in Addrs : live[p] # NoAlloc}

\* an allocate that threw for an unset provider or a refused reservation
C4_Aborted(l) ==
    /\ IsAllocate(l)
    /\ \/ l.outcome = Unset
       \/ l.outcome = "system_error" /\ l.calls[1].ec = "exhausted"

\* C4: an allocate that fails because the allocator is unbound or because
\* the provider refuses the reservation changes nothing: the allocators'
\* providers, the allocations and the mapped ranges are as before, and every
\* address an earlier allocate returned is still mapped and can be
\* deallocated by an allocator of its provider; and the provider, if it has
\* room and an address left, can still serve a later allocate.
C4_FailedAllocateChangesNothing ==
    /\ [][C4_Aborted(last') =>
            /\ adapters' = adapters /\ allocs' = allocs
            /\ maps' = maps /\ live' = live]_vars
    /\ [](C4_Aborted(last) =>
            \A p \in Live :
                /\ maps[p].alloc = live[p]
                /\ \A i \in Adapters :
                       adapters[i].prov = allocs[live[p]].prov =>
                           deallocate(adapters, allocs, maps, held, i, p).outcome = "ok")
    /\ [](C4_Aborted(last) /\ last.outcome = "system_error" =>
            LET P == adapters[last.who].prov
                t == SizeofT(last.who)
            IN  (/\ Used(allocs, P) + t <= Capacity
                 /\ \E p \in Addrs : maps[p].alloc = NoAlloc) =>
                    \E c \in Addrs :
                        allocate(adapters, allocs, maps, held, last.who, 1, TRUE, t,
                                 c).outcome = "ok")

\* C4 happens: the provider refused a reservation while an address was live
C4_Witness ==
    /\ C4_Aborted(last) /\ last.outcome = "system_error"
    /\ \E p \in Live : allocs[live[p]].prov = adapters[last.who].prov

\* C5: on a bound allocator, allocate(n) with n > (2^w - 1) div sizeof(T)
\* fails with bad_alloc and calls nothing on the provider; so the bytes asked
\* of provider::allocate are always n * sizeof(T), not wrapped modulo 2^w.
C5_NoWraparound ==
    IsAllocate(last) =>
        /\ (/\ adapters[last.who].prov # NoProvider
            /\ last.arg > (2 ^ SizeBits - 1) \div SizeofT(last.who)) =>
               /\ last.outcome = "bad_alloc"
               /\ last.calls = <<>>
        /\ \A k \in 1 .. Len(last.calls) :
               last.calls[k].call = "allocate" =>
                   last.calls[k].length = last.arg * SizeofT(last.who)

\* C5 happens: a count whose byte size wraps to a value the provider could give
C5_Witness ==
    /\ IsAllocate(last) /\ adapters[last.who].prov # NoProvider
    /\ last.arg > (2 ^ SizeBits - 1) \div SizeofT(last.who)
    /\ (last.arg * SizeofT(last.who)) % SizeMod \in 1 .. Capacity
    /\ last.outcome = "bad_alloc"

\* C6: deallocate(p, n) of a pointer the provider's lookup does not resolve
\* fails with "Address not found", unmaps nothing and leaves every mapped
\* range as it was.
C6_LookupMiss ==
    [][(/\ IsDeallocate(last')
        /\ adapters[last'.who].prov # NoProvider
        /\ ProviderLookup(maps, allocs, adapters[last'.who].prov, last'.arg,
                          map_t0).a = NoAlloc) =>
           /\ last'.outcome = NotFound
           /\ Len(last'.calls) = 1 /\ last'.calls[1].call = "allocation"
           /\ maps' = maps /\ allocs' = allocs /\ live' = live]_vars

\* C6 happens: a second deallocate of an address, and the deallocate of an
\* address another provider mapped, while a range is mapped
C6_Witness ==
    /\ IsDeallocate(last) /\ last.outcome = NotFound
    /\ last.arg # nullptr
    /\ \E p \in Addrs : maps[p].alloc # NoAlloc

\* C7: when the provider gives the allocation and the address, allocate(n)
\* asked for n * sizeof(T) bytes and returns that non-null address p; then
\* deallocate(p, n) on an allocator of that provider succeeds, after which the
\* provider's lookup of p finds nothing and a second deallocate(p, n) fails
\* with "Address not found".
C7_RoundTrip ==
    /\ [](IsAllocate(last) /\ Len(last.calls) = 2 /\ last.calls[2].addr # nullptr =>
            /\ last.outcome = "ok" /\ last.ret # nullptr
            /\ last.ret = last.calls[2].addr
            /\ last.calls[1].length = last.arg * SizeofT(last.who)
            /\ live[last.ret] = last.calls[1].got)
    /\ [][(/\ IsDeallocate(last')
           /\ last'.arg \in Live
           /\ adapters[last'.who].prov = allocs[live[last'.arg]].prov) =>
              /\ last'.outcome = "ok"
              /\ \A P \in Providers :
                     ProviderLookup(maps', allocs', P, last'.arg, map_t0).a = NoAlloc
              /\ deallocate(adapters', allocs', maps', held', last'.who,
                            last'.arg).outcome = NotFound]_vars

\* C7 happens: an address was allocated and deallocated through different
\* allocators of one provider
C7_Witness ==
    /\ IsDeallocate(last) /\ last.outcome = "ok"
    /\ last.arg \notin Live
    /\ \E i \in Adapters : i # last.who /\ adapters[i].prov = adapters[last.who].prov

\* both unbound, or both bound to one provider
C8_SameProvider(i, j) ==
    \/ adapters[i].prov = NoProvider /\ adapters[j].prov = NoProvider
    \/ \E P \in Providers : adapters[i].prov = P /\ adapters[j].prov = P

\* C8: two allocators compare equal exactly when both are unbound or both
\* hold the same provider, whatever their element types; != is the negation
\* of ==; an allocator made by copying or rebinding another compares equal to
\* it.
C8_Equality ==
    /\ \A i, j \in Adapters :
        /\ operator_eq(adapters[i], adapters[j]) <=> C8_SameProvider(i, j)
        /\ operator_ne(adapters[i], adapters[j]) <=> ~operator_eq(adapters[i], adapters[j])
    /\ last.op = "copy" =>
        /\ operator_eq(adapters[last.who], adapters[last.arg])
        /\ ~operator_ne(adapters[last.arg], adapters[last.who])

\* C8 happens: a bound allocator was copied into one of another element type
C8_Witness ==
    /\ last.op = "copy"
    /\ adapters[last.arg].prov \in Providers
    /\ SizeofT(last.who) # SizeofT(last.arg)

====
